---- MODULE Spec2Model ----
(***************************************************************************)
(* streamlit_msal_2: the authentication gate (init_auth), the OBO token    *)
(* acquire with retry (_acquire_access_token_obo) and the check-and-       *)
(* refresh of the OBO token record (refresh_obo_token), as a state machine *)
(* over the per-session st.session_state, the process environment          *)
(* os.environ and the wall clock.                                          *)
(*                                                                         *)
(* Python values: None is the string "None"; a dict is a function whose    *)
(* DOMAIN is its key set (the empty dict is falsy); an optional object is  *)
(* a sequence of length 0 (None) or 1; a str that is searched with `in`    *)
(* (the account username, the email suffix) is a sequence of pieces.       *)
(***************************************************************************)
EXTENDS Integers, Sequences, FiniteSets, TLC

VARIABLES
    st,     \* st[s]: st.session_state of user session s, a dict
    env,    \* os.environ: TENANT_ID, CLIENT_ID, CLIENT_SECRET, OBO_TOKEN
    now,    \* datetime.datetime.now(), in seconds
    last,   \* what the most recent call of a public function did
    fnIn,   \* arguments of a helper applied on its own (SpecRole, SpecAcq)
    fnOut   \* its result, once applied

vars == <<st, env, now, last, fnIn, fnOut>>

-----------------------------------------------------------------------------
(* Bounds of the model *)

\* the clock stops the model at MaxTime seconds
MaxTime == 6
\* init_auth is called with retry_times in 0..MaxRetry
MaxRetry == 2
\* _acquire_access_token_obo alone is applied with retry_times in 0..MaxAcqRetry
MaxAcqRetry == 5

-----------------------------------------------------------------------------
(* Python values *)

None == "None"
Nothing == << >>
Some(x) == <<x>>
Empty == [k \in {} |-> None]

\* bool(d) of a dict (or of None, modelled as the empty dict)
Truthy(d) == DOMAIN d # {}

\* d.get(k)
Get(d, k) == IF k \in DOMAIN d THEN d[k] ELSE None

\* d[k] = v
Put(d, k, v) == [x \in (DOMAIN d) \cup {k} |-> IF x = k THEN v ELSE d[x]]

\* x in list
InList(x, list) == \E i \in DOMAIN list : list[i] = x

\* sub in s, for two str
IsSubstring(sub, s) ==
    \E i \in 0..(Len(s) - Len(sub)) :
        \A j \in 1..Len(sub) : s[i + j] = sub[j]

Range(f) == {f[x] : x \in DOMAIN f}

\* `arg or os.getenv(NAME, None)`: a falsy argument falls back to the environment
Resolve(arg, envValue) == IF arg \notin {None, ""} THEN arg ELSE envValue

-----------------------------------------------------------------------------
(* The values the callers, the sign-in widget and the token endpoint supply *)

Sessions == {"s1"}

\* the tenant, the client and its secret of the deployment
TenantId == "t1"
ClientId == "c1"
ClientSecret == "shh"

\* the environment the process was started in: nothing configured, or the
\* tenant, the client and its secret configured
EnvConfigs ==
    {[TENANT_ID |-> None, CLIENT_ID |-> None, CLIENT_SECRET |-> None,
      OBO_TOKEN |-> None],
     [TENANT_ID |-> TenantId, CLIENT_ID |-> ClientId,
      CLIENT_SECRET |-> ClientSecret, OBO_TOKEN |-> None]}

\* a str argument of a call: not given (None), or given; where the
\* environment holds the same value, giving it changes nothing
StrArgs(value, envValue) == IF envValue = None THEN {None, value} ELSE {None}
Scope == "api://downstream/.default"

\* what Msal.initialize_ui returns when a user is signed in
Identity(name, username, idToken, claims) ==
    [account |-> [name |-> name, username |-> username],
     idToken |-> idToken,
     idTokenClaims |-> claims]

Alice == Identity("Alice", <<"alice", "@corp.com">>, "idt-alice",
                  [roles |-> <<"App.Admin">>])
Bob   == Identity("Bob", <<"bob", "@other.org">>, "idt-bob",
                  [roles |-> <<"App.User", "App.Admin">>])
Carol == Identity("Carol", <<"carol", "@corp.com">>, "idt-carol",
                  [roles |-> <<"App.User">>])
Eve   == Identity("Eve", <<"eve", "@corp.com">>, "idt-eve",
                  [sub |-> "eve"])

\* Empty: the falsy value of a user who is not signed in
WidgetResults == {Empty, Alice, Bob, Carol, Eve}

\* email_suffix: None, or the enterprise suffix
EmailSuffixes == {Nothing, Some(<<"@corp.com">>)}

\* user_roles: None (the default), or the required roles of the application
RequiredRoles == [Admin |-> "App.Admin"]
UserRolesArgs == {Nothing, Some(RequiredRoles)}

\* the JSON body of a token response
TokenBody(access, refresh, expiresIn) ==
    [access_token |-> access, refresh_token |-> refresh, expires_in |-> expiresIn]

\* expires_in: a lifetime of 0 or 1 s and, degenerate, a negative one
ExpiresIns == {-1, 0, 1}
TokenBodies ==
    {TokenBody("at1", "rt1", e) : e \in ExpiresIns \ {-1}}
        \cup {TokenBody("at2", "rt2", e) : e \in ExpiresIns \ {0}}
ErrorBody == [error |-> "invalid_grant"]

\* seconds the token endpoint takes to answer a POST
Latencies == {0, 1}

Response(status, body, latency) ==
    [status_code |-> status, body |-> body, latency |-> latency]

\* answers of the token endpoint: 200 with a token body (or, degenerate, with
\* an empty JSON object), or an error status with an error body
OkResponses ==
    {Response(200, b, d) : b \in TokenBodies \cup {Empty}, d \in Latencies}
TokenResponses == {r \in OkResponses : Truthy(r.body)}
ErrResponses == {Response(500, ErrorBody, d) : d \in Latencies}

-----------------------------------------------------------------------------
(* _check_role *)

\* mutants: the labels are searched instead of the values; any roles list passes
CheckRoleByLabel(auth, user_roles) ==
    IF ~Truthy(auth) THEN FALSE
    ELSE IF "roles" \notin DOMAIN auth THEN FALSE
    ELSE \E label \in DOMAIN user_roles : InList(label, auth.roles)

CheckRoleAnyRoles(auth, user_roles) ==
    IF ~Truthy(auth) THEN FALSE
    ELSE "roles" \in DOMAIN auth

_check_role(auth, user_roles) ==
    IF ~Truthy(auth) THEN FALSE
    ELSE IF "roles" \notin DOMAIN auth THEN FALSE
    ELSE \E label \in DOMAIN user_roles : InList(user_roles[label], auth.roles)

-----------------------------------------------------------------------------
(* _acquire_access_token_obo *)

\* time.sleep(5)
SleepSecs == 5

\* the form the on-behalf-of grant POSTs
OboRequest(auth_id_token, tenant_id, client_id, client_secret, downstream_scope) ==
    [url |-> <<"https://login.microsoftonline.com/", tenant_id, "/oauth2/v2.0/token">>,
     client_id |-> client_id,
     client_secret |-> client_secret,
     grant_type |-> "urn:ietf:params:oauth:grant-type:jwt-bearer",
     scope |-> downstream_scope,
     token |-> auth_id_token]

Returned(body, posts, times, elapsed) ==
    [kind |-> "return", exc |-> None, body |-> body, posts |-> posts,
     times |-> times, elapsed |-> elapsed]

Raised(exc, posts, times, elapsed) ==
    [kind |-> "raise", exc |-> exc, body |-> Empty, posts |-> posts,
     times |-> times, elapsed |-> elapsed]

\* mutant: `times <= retry_times`
LoopCondInclusive(times, retry_times) == times <= retry_times

\* the loop condition `times < retry_times`
LoopCond(times, retry_times) == times < retry_times

\* the retry loop; resps[n] answers the n-th POST of the call
RECURSIVE AcquireLoop(_, _, _, _, _, _)
AcquireLoop(times, retry_times, data, resps, posts, elapsed) ==
    IF LoopCond(times, retry_times)
    THEN LET response == resps[Len(posts) + 1]
             sent == Append(posts, data)
             t == elapsed + response.latency
         IN IF response.status_code = 200
            THEN Returned(response.body, sent, times, t)
            ELSE AcquireLoop(times + 1, retry_times, data, resps, sent,
                             t + SleepSecs)
    ELSE Raised("RequestException", posts, times, elapsed)

\* mutant: `times = 0`
AcquireFromZero(auth_id_token, tenant_arg, client_arg, secret_arg, downstream_scope, retry_times, resps) ==
    LET tenant_id == Resolve(tenant_arg, env.TENANT_ID)
        client_id == Resolve(client_arg, env.CLIENT_ID)
        client_secret == Resolve(secret_arg, env.CLIENT_SECRET)
    IN IF tenant_id = None \/ client_id = None \/ client_secret = None
       THEN Raised("ValueError", << >>, 0, 0)
       ELSE AcquireLoop(0, retry_times,
                        OboRequest(auth_id_token, tenant_id, client_id,
                                   client_secret, downstream_scope),
                        resps, << >>, 0)

_acquire_access_token_obo(auth_id_token, tenant_arg, client_arg, secret_arg, downstream_scope, retry_times, resps) ==
    LET tenant_id == Resolve(tenant_arg, env.TENANT_ID)
        client_id == Resolve(client_arg, env.CLIENT_ID)
        client_secret == Resolve(secret_arg, env.CLIENT_SECRET)
    IN IF tenant_id = None \/ client_id = None \/ client_secret = None
       THEN Raised("ValueError", << >>, 1, 0)
       ELSE AcquireLoop(1, retry_times,
                        OboRequest(auth_id_token, tenant_id, client_id,
                                   client_secret, downstream_scope),
                        resps, << >>, 0)

-----------------------------------------------------------------------------
(* _refresh_access_token *)

\* the form the refresh grant POSTs
RefreshRequest(refresh_token, tenant_id, client_id, client_secret, downstream_scope) ==
    [url |-> <<"https://login.microsoftonline.com/", tenant_id, "/oauth2/v2.0/token">>,
     client_id |-> client_id,
     client_secret |-> client_secret,
     grant_type |-> "refresh_token",
     scope |-> downstream_scope,
     token |-> refresh_token]

\* one POST, whose JSON body is returned whatever the status
_refresh_access_token(ss, tenant_arg, client_arg, secret_arg, downstream_scope, refresh_token, response) ==
    LET tenant_id == Resolve(tenant_arg, env.TENANT_ID)
        client_id == Resolve(client_arg, env.CLIENT_ID)
        client_secret == Resolve(secret_arg, env.CLIENT_SECRET)
        token == IF refresh_token = None THEN ss.obo_info.refresh_token
                 ELSE refresh_token
    IN IF tenant_id = None \/ client_id = None \/ client_secret = None
       THEN Raised("ValueError", << >>, 0, 0)
       ELSE Returned(response.body,
                     <<RefreshRequest(token, tenant_id, client_id,
                                      client_secret, downstream_scope)>>,
                     0, response.latency)

-----------------------------------------------------------------------------
(* The record of a call of init_auth or refresh_obo_token *)

\* outcome: "return" (returned to the caller), "stop" (st.stop() halted the
\* render) or "raise" (an exception reached the caller); msg: what was shown
\* (st.warning, st.write); why: the check that stopped the render;
\* tenant_id, client_id, client_secret: as resolved, once the call resolved
\* them; email_suffix, user_roles, obo (init_obo_process): the arguments,
\* once the call read them; widget: what the sign-in widget returned; posts:
\* the POSTs to the token endpoint; body: the JSON of the token response
\* used; ret: the value returned; had_obo_info: the session had an obo_info
\* when the call began
Call(op, s) ==
    [op |-> op, sid |-> s, outcome |-> "return", exc |-> None, msg |-> None,
     why |-> None, tenant_id |-> None, client_id |-> None,
     client_secret |-> None, email_suffix |-> Nothing,
     user_roles |-> Nothing, obo |-> FALSE, widget |-> Empty,
     posts |-> << >>, body |-> Empty, ret |-> Nothing,
     had_obo_info |-> FALSE]

NoCall == Call("none", "none")

Stopped(c, msg, why) ==
    [c EXCEPT !.outcome = "stop", !.msg = msg, !.why = why]

Threw(c, exc) == [c EXCEPT !.outcome = "raise", !.exc = exc]

\* the step ends in session state ss of session s, environment e, time t
Ends(s, ss, e, t, l) ==
    /\ t <= MaxTime
    /\ st' = [st EXCEPT ![s] = ss]
    /\ env' = e
    /\ now' = t
    /\ last' = l
    /\ UNCHANGED <<fnIn, fnOut>>

-----------------------------------------------------------------------------
(* init_auth *)

\* mutant: without the "not in st.session_state" guard
SetIdentityStateAlways(ss, auth_data) ==
    Put(Put(Put(ss, "auth_data", auth_data),
            "username", auth_data.account.name),
        "roles", auth_data.idTokenClaims.roles)

\* lines 157-162: set once per session
SetIdentityState(ss, auth_data) ==
    IF "auth_data" \notin DOMAIN ss
    THEN Put(Put(Put(ss, "auth_data", auth_data),
                 "username", auth_data.account.name),
             "roles", auth_data.idTokenClaims.roles)
    ELSE ss

\* mutant: the lifetime of the response is not added
OboInfoNoLifetime(obo_token, t) ==
    [access_token |-> Get(obo_token, "access_token"),
     refresh_token |-> Get(obo_token, "refresh_token"),
     expires_at |-> t]

\* mutant: the two tokens change places
OboInfoSwapped(obo_token, t) ==
    [access_token |-> Get(obo_token, "refresh_token"),
     refresh_token |-> Get(obo_token, "access_token"),
     expires_at |-> t + Get(obo_token, "expires_in")]

\* lines 178-183
OboInfo(obo_token, t) ==
    [access_token |-> Get(obo_token, "access_token"),
     refresh_token |-> Get(obo_token, "refresh_token"),
     expires_at |-> t + Get(obo_token, "expires_in")]

\* mutant: an existing record is kept
StoreOboOnce(ss, obo_token, t) ==
    IF "obo_info" \in DOMAIN ss
    THEN ss
    ELSE Put(Put(ss, "obo_info", OboInfo(obo_token, t)),
             "obo_token", Get(obo_token, "access_token"))

\* lines 178-185, session part
StoreObo(ss, obo_token, t) ==
    Put(Put(ss, "obo_info", OboInfo(obo_token, t)),
        "obo_token", Get(obo_token, "access_token"))

\* mutant: the first writer wins
SetEnvTokenOnce(e, access_token) ==
    IF e.OBO_TOKEN = None THEN [e EXCEPT !.OBO_TOKEN = access_token] ELSE e

\* line 184
SetEnvToken(e, access_token) == [e EXCEPT !.OBO_TOKEN = access_token]

\* the answers of the token endpoint to the POSTs of one acquire: as long as
\* the loop goes on it is asked again, and answers 200 or an error status
RECURSIVE EndpointRuns(_, _)
EndpointRuns(times, retry_times) ==
    IF LoopCond(times, retry_times)
    THEN {<<ok>> : ok \in OkResponses}
            \cup {<<err>> \o rest : err \in ErrResponses,
                                   rest \in EndpointRuns(times + 1, retry_times)}
    ELSE {<< >>}

\* retry_times and the answers of the endpoint
RetryRuns ==
    UNION {{<<r, resps>> : resps \in EndpointRuns(1, r)} : r \in 0..MaxRetry}

\* without a client secret the acquire raises before it reads either
OboInputs(secret_arg) ==
    IF Resolve(secret_arg, env.CLIENT_SECRET) = None
    THEN {<<0, << >> >>}
    ELSE RetryRuns

\* lines 164-185
InitObo(s, c, ss, auth_data, tenant_id, client_id) ==
    \E secret_arg \in StrArgs(ClientSecret, env.CLIENT_SECRET) :
      \E in \in OboInputs(secret_arg) :
      \E r \in {_acquire_access_token_obo(auth_data.idToken, tenant_id,
                     client_id, secret_arg, Scope, in[1], in[2])} :
        LET c1 == [c EXCEPT !.posts = r.posts, !.body = r.body,
                            !.client_secret =
                                Resolve(secret_arg, env.CLIENT_SECRET)]
            t == now + r.elapsed
        IN IF r.kind = "raise"
           THEN Ends(s, ss, env, t, Threw(c1, r.exc))
           ELSE IF ~Truthy(r.body)
           THEN Ends(s, ss, env, t, Stopped(c1, "write", "obo_failed"))
           ELSE Ends(s, StoreObo(ss, r.body, t),
                     SetEnvToken(env, Get(r.body, "access_token")), t, c1)

\* lines 136-185, after the widget returned auth_data
Gate(s, c0, auth_data, tenant_id, client_id) ==
    LET c1 == [c0 EXCEPT !.widget = auth_data] IN
    IF ~Truthy(auth_data)
    THEN Ends(s, st[s], env, now, Stopped(c1, "warning", "no_identity"))
    ELSE \E email_suffix \in EmailSuffixes :
        LET c2 == [c1 EXCEPT !.email_suffix = email_suffix] IN
        IF /\ email_suffix # Nothing
           /\ ~IsSubstring(email_suffix[1], auth_data.account.username)
        THEN Ends(s, st[s], env, now, Stopped(c2, "warning", "email_suffix"))
        ELSE \E user_roles \in UserRolesArgs :
            LET c == [c2 EXCEPT !.user_roles = user_roles] IN
            IF /\ user_roles = Nothing
               /\ Truthy(auth_data.idTokenClaims)
               /\ "roles" \in DOMAIN auth_data.idTokenClaims
            THEN \* line 300: None has no values()
                 Ends(s, st[s], env, now, Threw(c, "AttributeError"))
            ELSE IF ~_check_role(auth_data.idTokenClaims,
                                 IF user_roles = Nothing THEN Empty
                                 ELSE user_roles[1])
            THEN Ends(s, st[s], env, now, Stopped(c, "warning", "role"))
            ELSE \E init_obo_process \in BOOLEAN :
                LET ss == SetIdentityState(st[s], auth_data) IN
                IF init_obo_process
                THEN InitObo(s, [c EXCEPT !.obo = TRUE], ss, auth_data,
                             tenant_id, client_id)
                ELSE Ends(s, ss, env, now, c)

\* mutant: the client id is not checked
ConfigMissingTenantOnly(tenant_id, client_id) == tenant_id = None

\* line 117
ConfigMissing(tenant_id, client_id) == tenant_id = None \/ client_id = None

init_auth(s) ==
    \E tenant_arg \in StrArgs(TenantId, env.TENANT_ID),
       client_arg \in StrArgs(ClientId, env.CLIENT_ID) :
        LET client_id == Resolve(client_arg, env.CLIENT_ID)
            tenant_id == Resolve(tenant_arg, env.TENANT_ID)
            c == [Call("init_auth", s) EXCEPT
                    !.tenant_id = tenant_id,
                    !.client_id = client_id,
                    !.had_obo_info = "obo_info" \in DOMAIN st[s]]
        IN IF ConfigMissing(tenant_id, client_id)
           THEN Ends(s, st[s], env, now, Stopped(c, "warning", "config"))
           ELSE \E auth_data \in WidgetResults :
                    Gate(s, c, auth_data, tenant_id, client_id)

-----------------------------------------------------------------------------
(* refresh_obo_token *)

\* mutant: `<=`
IsExpiredInclusive(tokens, t) == tokens.expires_at <= t

\* line 217
IsExpired(tokens, t) == tokens.expires_at < t

\* lines 227-228: the record of the session is updated in place
TakeTokens(tokens, new_tokens) ==
    [tokens EXCEPT !.access_token = Get(new_tokens, "access_token"),
                   !.refresh_token = Get(new_tokens, "refresh_token")]

\* mutant: the expiry is not updated
TakeExpiryNever(tokens, new_tokens, t) == tokens

\* mutant: the new lifetime is added to the old expiry
TakeExpiryFromOld(tokens, new_tokens, t) ==
    [tokens EXCEPT !.expires_at = @ + Get(new_tokens, "expires_in")]

\* lines 229-231
TakeExpiry(tokens, new_tokens, t) ==
    [tokens EXCEPT !.expires_at = t + Get(new_tokens, "expires_in")]

\* lines 232-234, session part
StoreRefreshed(ss, tokens) ==
    Put(Put(ss, "obo_info", tokens), "obo_token", tokens.access_token)

\* the answers to the refresh grant: 200 with a token body, or an error
\* status with an error body; none is read when the call raises before it POSTs
RefreshResponses(tenant_arg, client_arg, secret_arg) ==
    IF \/ Resolve(tenant_arg, env.TENANT_ID) = None
       \/ Resolve(client_arg, env.CLIENT_ID) = None
       \/ Resolve(secret_arg, env.CLIENT_SECRET) = None
    THEN {Response(500, ErrorBody, 0)}
    ELSE TokenResponses \cup ErrResponses

\* lines 217-235, the record has expired
Refresh(s, c, tokens) ==
    \E tenant_arg \in StrArgs(TenantId, env.TENANT_ID),
       client_arg \in StrArgs(ClientId, env.CLIENT_ID),
       secret_arg \in StrArgs(ClientSecret, env.CLIENT_SECRET) :
      \E response \in RefreshResponses(tenant_arg, client_arg, secret_arg) :
      \E r \in {_refresh_access_token(st[s], tenant_arg, client_arg,
                     secret_arg, Scope, Get(tokens, "refresh_token"), response)} :
        LET c1 == [c EXCEPT !.posts = r.posts, !.body = r.body,
                            !.tenant_id = Resolve(tenant_arg, env.TENANT_ID),
                            !.client_id = Resolve(client_arg, env.CLIENT_ID),
                            !.client_secret =
                                Resolve(secret_arg, env.CLIENT_SECRET)]
            t == now + r.elapsed
            tokens1 == TakeTokens(tokens, r.body)
        IN IF r.kind = "raise"
           THEN Ends(s, st[s], env, now, Threw(c1, r.exc))
           ELSE IF "expires_in" \notin DOMAIN r.body
           THEN \* timedelta(seconds=None), after lines 227-228
                Ends(s, Put(st[s], "obo_info", tokens1), env, t,
                     Threw(c1, "TypeError"))
           ELSE LET tokens2 == TakeExpiry(tokens1, r.body, t)
                    ss == StoreRefreshed(st[s], tokens2)
                IN Ends(s, ss, SetEnvToken(env, tokens2.access_token), t,
                        [c1 EXCEPT !.ret = Some(ss.obo_info)])

refresh_obo_token(s) ==
    LET c == [Call("refresh_obo_token", s) EXCEPT
                !.had_obo_info = "obo_info" \in DOMAIN st[s]] IN
    IF "obo_info" \notin DOMAIN st[s]
    THEN \* line 211: st.session_state has no attribute obo_info
         Ends(s, st[s], env, now, Threw(c, "AttributeError"))
    ELSE LET tokens == st[s].obo_info IN
         IF ~Truthy(tokens)
         THEN Ends(s, st[s], env, now, [c EXCEPT !.msg = "write"])
         ELSE IF IsExpired(tokens, now)
         THEN Refresh(s, c, tokens)
         ELSE Ends(s, st[s], env, now, [c EXCEPT !.ret = Some(st[s].obo_info)])

-----------------------------------------------------------------------------
(* The sessions of one process *)

\* time passes between two calls
Tick ==
    /\ now < MaxTime
    /\ now' = now + 1
    /\ last' = NoCall
    /\ UNCHANGED <<st, env, fnIn, fnOut>>

Init ==
    /\ st = [s \in Sessions |-> Empty]
    /\ env \in EnvConfigs
    /\ now = 0
    /\ last = NoCall
    /\ fnIn = Empty
    /\ fnOut = Nothing

Next ==
    \/ \E s \in Sessions : init_auth(s)
    \/ \E s \in Sessions : refresh_obo_token(s)
    \/ Tick

Spec == Init /\ [][Next]_vars

-----------------------------------------------------------------------------
(* Claims about init_auth *)

\* key k is in both dicts with one value, or in neither
SameKey(d1, d2, k) ==
    /\ (k \in DOMAIN d1) = (k \in DOMAIN d2)
    /\ k \in DOMAIN d1 => d1[k] = d2[k]

HasIdentityState(ss) == {"auth_data", "username", "roles"} \subseteq DOMAIN ss

\* C1: once auth_data, username and roles are set in a session, no later
\* init_auth call in that session changes any of the three, whatever identity
\* the sign-in widget returns on the later call.
ThmC1 ==
    [][\A s \in Sessions :
        (last'.op = "init_auth" /\ last'.sid = s /\ "auth_data" \in DOMAIN st[s])
            => /\ HasIdentityState(st'[s])
               /\ st'[s].auth_data = st[s].auth_data
               /\ st'[s].username = st[s].username
               /\ st'[s].roles = st[s].roles]_vars

\* a later call in Alice's session returned with Bob signed in
WitC1 ==
    /\ last.op = "init_auth" /\ last.outcome = "return"
    /\ last.widget = Bob
    /\ HasIdentityState(st[last.sid])
    /\ st[last.sid].auth_data = Alice
    /\ st[last.sid].username = "Alice"

ClaimedRoles(identity) ==
    IF "roles" \in DOMAIN identity.idTokenClaims
    THEN Range(identity.idTokenClaims.roles)
    ELSE {}

\* a gate check of call l fails: tenant or client id unresolved, no identity
\* from the widget, the configured suffix not in the username, none of the
\* required role values among the claimed roles
GateFails(l) ==
    \/ l.tenant_id = None
    \/ l.client_id = None
    \/ ~Truthy(l.widget)
    \/ /\ l.email_suffix # Nothing
       /\ ~IsSubstring(l.email_suffix[1], l.widget.account.username)
    \/ /\ l.user_roles # Nothing
       /\ ClaimedRoles(l.widget) \cap Range(l.user_roles[1]) = {}

\* C2: an init_auth call that fails a gate check halts the render after a
\* warning and leaves the session state (auth_data, username, roles, obo_info,
\* obo_token) and the environment (OBO_TOKEN) as they were.
ThmC2 ==
    [][(last'.op = "init_auth" /\ GateFails(last'))
        => /\ last'.outcome = "stop"
           /\ last'.msg = "warning"
           /\ st' = st
           /\ env' = env]_vars

\* required roles {"Admin": "App.Admin"}, claims {roles: ["App.User"]}, on a
\* fresh session: halted, nothing written
WitC2 ==
    /\ last.op = "init_auth" /\ last.outcome = "stop"
    /\ last.widget = Carol
    /\ last.user_roles = Some(RequiredRoles)
    /\ st[last.sid] = Empty

\* C3: when init_auth returns normally the session holds auth_data, username
\* and roles; if they were not set before the call they are those of the
\* identity the widget returned; and with init_obo_process set, obo_info holds
\* the access_token and refresh_token of the 200 response and obo_token and
\* OBO_TOKEN are that access_token.
ThmC3 ==
    [][\A s \in Sessions :
        (last'.op = "init_auth" /\ last'.sid = s /\ last'.outcome = "return")
            => /\ HasIdentityState(st'[s])
               /\ "auth_data" \notin DOMAIN st[s]
                    => /\ st'[s].auth_data = last'.widget
                       /\ st'[s].username = last'.widget.account.name
                       /\ st'[s].roles = last'.widget.idTokenClaims.roles
               /\ last'.obo
                    => /\ last'.posts # << >>
                       /\ {"obo_info", "obo_token"} \subseteq DOMAIN st'[s]
                       /\ st'[s].obo_info.access_token = last'.body.access_token
                       /\ st'[s].obo_info.refresh_token = last'.body.refresh_token
                       /\ st'[s].obo_token = last'.body.access_token
                       /\ env'.OBO_TOKEN = last'.body.access_token]_vars

\* the first successful call of a session, with the OBO exchange
WitC3 ==
    /\ last.op = "init_auth" /\ last.outcome = "return" /\ last.obo
    /\ last.widget = Bob
    /\ st[last.sid].username = "Bob"
    /\ st[last.sid].obo_token = "at2"
    /\ st[last.sid].obo_info.refresh_token = "rt2"
    /\ env.OBO_TOKEN = "at2"

\* C7 (as claimed): when the OBO acquire of an init_auth call exhausts its
\* retries, the request-failure error is caught in init_auth and turned into a
\* message and a halt of the render; it does not reach the caller, and
\* obo_info, obo_token and OBO_TOKEN are not written.
OrigC7 ==
    [][\A s \in Sessions :
        (last'.op = "init_auth" /\ last'.sid = s /\ last'.obo
            /\ last'.posts # << >> /\ last'.exc = "RequestException")
            => /\ last'.outcome = "stop"
               /\ last'.msg # None
               /\ SameKey(st'[s], st[s], "obo_info")
               /\ SameKey(st'[s], st[s], "obo_token")
               /\ env'.OBO_TOKEN = env.OBO_TOKEN]_vars

\* C8 (as claimed): a configuration error of init_auth (tenant id, client id
\* or, with init_obo_process, client secret missing after the environment
\* fallback) ends in a warning and a halt; no exception reaches the caller.
OrigC8 ==
    last.op = "init_auth"
        => /\ (\/ last.tenant_id = None
               \/ last.client_id = None
               \/ (last.obo /\ last.client_secret = None))
                => (last.outcome = "stop" /\ last.msg = "warning")
           /\ last.exc # "ValueError"

\* C8 (amended): a missing tenant id or client id ends in a warning and a
\* halt; a missing client secret, with init_obo_process set and the gate
\* passed, is the value error of the acquire helper, which reaches the caller
\* of init_auth after the identity state was set and before any POST.
ThmC8 ==
    last.op = "init_auth"
        => /\ (last.tenant_id = None \/ last.client_id = None)
                => (last.outcome = "stop" /\ last.msg = "warning")
           /\ (last.obo /\ last.client_secret = None)
                => /\ last.outcome = "raise"
                   /\ last.exc = "ValueError"
                   /\ last.posts = << >>
                   /\ HasIdentityState(st[last.sid])
           /\ last.exc = "ValueError"
                => (last.obo /\ last.client_secret = None)

WitC8 ==
    /\ last.op = "init_auth" /\ last.obo
    /\ last.tenant_id # None /\ last.client_id # None
    /\ last.client_secret = None
    /\ last.outcome = "raise"

\* every gate check of call l passed: tenant and client id resolved, an
\* identity from the widget, the suffix (if configured) in the username, a
\* required role value among the claimed roles
GatePassed(l) ==
    /\ l.tenant_id # None
    /\ l.client_id # None
    /\ Truthy(l.widget)
    /\ l.email_suffix # Nothing
            => IsSubstring(l.email_suffix[1], l.widget.account.username)
    /\ l.user_roles # Nothing
    /\ ClaimedRoles(l.widget) \cap Range(l.user_roles[1]) # {}

\* C13: an init_auth call issues a POST to the token endpoint only if
\* init_obo_process is set and tenant and client id were resolved, the widget
\* returned an identity, the email-suffix check (if configured) and the role
\* check passed; every POST is the on-behalf-of grant whose assertion is the
\* idToken of the identity the widget returned in that call.
ThmC13 ==
    (last.op = "init_auth" /\ last.posts # << >>)
        => /\ last.obo
           /\ GatePassed(last)
           /\ \A i \in DOMAIN last.posts :
                /\ last.posts[i].token = last.widget.idToken
                /\ last.posts[i].grant_type =
                        "urn:ietf:params:oauth:grant-type:jwt-bearer"
                /\ last.posts[i].client_id = last.client_id

\* Bob signs in through the widget of the session that holds Alice's
\* identity: the assertion POSTed is Bob's idToken
WitC13 ==
    /\ last.op = "init_auth" /\ last.obo
    /\ Len(last.posts) = 1
    /\ last.widget = Bob
    /\ last.posts[1].token = "idt-bob"
    /\ st[last.sid].auth_data = Alice

\* the step is a call of session s that took a token response: an init_auth
\* whose OBO exchange succeeded, or a refresh_obo_token that POSTed
ExchangeStep(s) ==
    /\ last'.op = "init_auth" /\ last'.sid = s
    /\ last'.obo /\ last'.outcome = "return"

RefreshStep(s) ==
    /\ last'.op = "refresh_obo_token" /\ last'.sid = s
    /\ last'.posts # << >>

\* C14 (as claimed): the OBO token record of a session is created by the
\* first successful OBO exchange of the session and from then on changes only
\* through refresh_obo_token: a later init_auth call of the session does not
\* replace an existing record.
OrigC14 ==
    [][\A s \in Sessions :
        /\ ("obo_info" \notin DOMAIN st[s] /\ "obo_info" \in DOMAIN st'[s])
                => ExchangeStep(s)
        /\ ("obo_info" \in DOMAIN st[s] /\ st'[s].obo_info # st[s].obo_info)
                => RefreshStep(s)
        /\ (last'.op = "init_auth" /\ last'.sid = s
                /\ "obo_info" \in DOMAIN st[s])
                => st'[s].obo_info = st[s].obo_info]_vars

\* C14 (amended): the record is created by the first successful OBO exchange
\* of the session and from then on changes only through refresh_obo_token or
\* through a later successful OBO exchange of init_auth, which replaces the
\* existing record by the one built from its own response; no other step
\* (a halted or raising init_auth, one without init_obo_process, a refresh
\* that does not POST, another moment of the clock) changes it.
ThmC14 ==
    [][\A s \in Sessions :
        /\ ("obo_info" \notin DOMAIN st[s] /\ "obo_info" \in DOMAIN st'[s])
                => ExchangeStep(s)
        /\ ("obo_info" \in DOMAIN st[s] /\ st'[s].obo_info # st[s].obo_info)
                => (RefreshStep(s) \/ ExchangeStep(s))
        /\ "obo_info" \in DOMAIN st[s] => "obo_info" \in DOMAIN st'[s]
        /\ ExchangeStep(s)
                => st'[s].obo_info =
                        [access_token |-> last'.body.access_token,
                         refresh_token |-> last'.body.refresh_token,
                         expires_at |-> now' + last'.body.expires_in]]_vars

\* a later init_auth of a session that had a record: the record is the one of
\* the new exchange
WitC14 ==
    /\ last.op = "init_auth" /\ last.obo /\ last.outcome = "return"
    /\ last.had_obo_info
    /\ last.body.access_token = "at2"
    /\ st[last.sid].obo_info.access_token = "at2"
    /\ st[last.sid].obo_info.expires_at = now + 1

\* the step processes a token-issuing response for session s
IssuingStep(s) ==
    ExchangeStep(s) \/ (RefreshStep(s) /\ last'.outcome = "return")

\* C15: the expires_at of a session's record is the clock time at which the
\* most recent token-issuing response for the session (OBO acquire of
\* init_auth, refresh grant of refresh_obo_token) was processed plus that
\* response's expires_in: every step that processes such a response sets it
\* so, and no other step creates the record or changes its expires_at.
ThmC15 ==
    [][\A s \in Sessions :
        IF IssuingStep(s)
        THEN /\ "expires_in" \in DOMAIN last'.body
             /\ "obo_info" \in DOMAIN st'[s]
             /\ st'[s].obo_info.expires_at = now' + last'.body.expires_in
        ELSE /\ ("obo_info" \in DOMAIN st'[s]) = ("obo_info" \in DOMAIN st[s])
             /\ "obo_info" \in DOMAIN st[s]
                    => st'[s].obo_info.expires_at = st[s].obo_info.expires_at]_vars

\* a refresh whose response took 1 s and carries a negative lifetime: the
\* record is stored as already expired, not extended
WitC15 ==
    /\ last.op = "refresh_obo_token" /\ last.outcome = "return"
    /\ Len(last.posts) = 1
    /\ last.body.expires_in = -1
    /\ st[last.sid].obo_info.expires_at = now - 1

-----------------------------------------------------------------------------
(* Claims about refresh_obo_token *)

Configured(l) ==
    l.tenant_id # None /\ l.client_id # None /\ l.client_secret # None

OrigC11 ==
    [][\A s \in Sessions :
        (last'.op = "refresh_obo_token" /\ last'.sid = s
            /\ "obo_info" \notin DOMAIN st[s])
            => /\ last'.outcome = "return"
               /\ last'.msg = "write"
               /\ last'.ret = Nothing
               /\ last'.posts = << >>
               /\ st' = st
               /\ env' = env]_vars

\* C12: of two consecutive refresh_obo_token calls of a session with no time
\* elapsed between them, where the first returned and, if it refreshed, took a
\* response with expires_in >= 0, the second issues no POST, changes no state
\* and returns the record the first returned.
ThmC12 ==
    [][\A s \in Sessions :
        (/\ last.op = "refresh_obo_token" /\ last.sid = s
         /\ last.outcome = "return"
         /\ last.posts # << >> => last.body.expires_in >= 0
         /\ last'.op = "refresh_obo_token" /\ last'.sid = s)
            => /\ last'.posts = << >>
               /\ last'.outcome = "return"
               /\ st' = st
               /\ env' = env
               /\ last'.ret = last.ret]_vars

\* a first call that refreshed and took a lifetime of 0: the record expires
\* at the very time of the next call
WitC12 ==
    /\ last.op = "refresh_obo_token" /\ last.outcome = "return"
    /\ Len(last.posts) = 1
    /\ last.body.expires_in = 0
    /\ st[last.sid].obo_info.expires_at = now
    /\ last.ret = Some(st[last.sid].obo_info)

\* C18 (as claimed): when the refresh-grant POST of refresh_obo_token is
\* answered with an error body, the session's record keeps the access_token,
\* refresh_token and expires_at it had before the call, and obo_token and
\* OBO_TOKEN are unchanged (stated for a record at1/rt1, whose lifetime was
\* not negative).
OrigC18 ==
    [][\A s \in Sessions :
        (RefreshStep(s) /\ last'.body = ErrorBody
            /\ st[s].obo_info.refresh_token = "rt1")
            => /\ "obo_info" \in DOMAIN st'[s]
               /\ st'[s].obo_info.access_token = st[s].obo_info.access_token
               /\ st'[s].obo_info.refresh_token = st[s].obo_info.refresh_token
               /\ st'[s].obo_info.expires_at = st[s].obo_info.expires_at
               /\ SameKey(st'[s], st[s], "obo_token")
               /\ env'.OBO_TOKEN = env.OBO_TOKEN]_vars

\* C19 (as claimed): where a session holds both the identity state and an
\* OBO token record, the record was obtained with the identity token of the
\* identity stored in auth_data (stated for the state in which an init_auth
\* call has just stored the record).
OrigC19 ==
    (last.op = "init_auth" /\ last.obo /\ last.outcome = "return")
        => /\ HasIdentityState(st[last.sid])
           /\ "obo_info" \in DOMAIN st[last.sid]
           /\ \A i \in DOMAIN last.posts :
                last.posts[i].token = st[last.sid].auth_data.idToken

-----------------------------------------------------------------------------
(* Two user sessions in one process *)

\* two browser sessions served by one process: each has its own
\* st.session_state, both share os.environ
Sessions2 == {"s1", "s2"}

\* the process is configured through its environment; the calls of the two
\* sessions interleave at one moment of the clock (a record whose lifetime is
\* negative has expired when it is stored, so refreshes do POST)
Init2 ==
    /\ st = [s \in Sessions2 |-> Empty]
    /\ env = [TENANT_ID |-> TenantId, CLIENT_ID |-> ClientId,
              CLIENT_SECRET |-> ClientSecret, OBO_TOKEN |-> None]
    /\ now = MaxTime
    /\ last = NoCall
    /\ fnIn = Empty
    /\ fnOut = Nothing

Next2 ==
    \/ \E s \in Sessions2 : init_auth(s)
    \/ \E s \in Sessions2 : refresh_obo_token(s)

Spec2 == Init2 /\ [][Next2]_vars

\* C16: with two sessions interleaving init_auth (with OBO) and
\* refresh_obo_token, OBO_TOKEN is the access token written by the most recent
\* successful acquire or refresh of any session: each such step sets it (and
\* the obo_token of the calling session only) to the access token of its
\* response, and no other step changes it.
ThmC16 ==
    [][/\ (\E s \in Sessions2 : IssuingStep(s))
            => /\ env'.OBO_TOKEN = last'.body.access_token
               /\ st'[last'.sid].obo_token = last'.body.access_token
       /\ ~(\E s \in Sessions2 : IssuingStep(s))
            => env'.OBO_TOKEN = env.OBO_TOKEN
       /\ \A s \in Sessions2 : s # last'.sid => st'[s] = st[s]]_vars

\* s2 refreshed after s1 acquired: s1 reads an OBO_TOKEN that is not its own
\* obo_token
WitC16 ==
    /\ last.op = "refresh_obo_token" /\ last.sid = "s2"
    /\ last.outcome = "return" /\ Len(last.posts) = 1
    /\ "obo_token" \in DOMAIN st["s1"]
    /\ st["s1"].obo_token = "at2"
    /\ st["s2"].obo_token = "at1"
    /\ env.OBO_TOKEN = "at1"

-----------------------------------------------------------------------------
(* _check_role applied on its own *)

RoleStrs == {"Admin", "App.Admin", "App.User"}
RoleLabels == {"Admin", "User"}

\* idTokenClaims: nothing, claims without roles, claims with a roles list
ClaimsObjects ==
    {Empty, [sub |-> "u1"]}
        \cup {[roles |-> << >>]}
        \cup {[roles |-> <<a>>] : a \in RoleStrs}
        \cup {[sub |-> "u1", roles |-> <<a, b>>] : a \in RoleStrs, b \in RoleStrs}

\* user_roles: label -> role value
RoleMappings == UNION {[labels -> RoleStrs] : labels \in SUBSET RoleLabels}

InitRole ==
    /\ st = [s \in Sessions |-> Empty]
    /\ env \in EnvConfigs
    /\ now = 0
    /\ last = NoCall
    /\ fnIn \in [auth : ClaimsObjects, user_roles : RoleMappings]
    /\ fnOut = Nothing

ApplyCheckRole ==
    /\ fnOut = Nothing
    /\ fnOut' = Some(_check_role(fnIn.auth, fnIn.user_roles))
    /\ UNCHANGED <<st, env, now, last, fnIn>>

SpecRole == InitRole /\ [][ApplyCheckRole]_vars

-----------------------------------------------------------------------------
(* _acquire_access_token_obo applied on its own *)

AcqResponses ==
    {Response(500, ErrorBody, 0)}
        \cup {Response(200, b, 0) : b \in {TokenBody("at1", "rt1", 1),
                                            TokenBody("at2", "rt2", 1)}}

InitAcq ==
    /\ st = [s \in Sessions |-> Empty]
    /\ env \in EnvConfigs
    /\ now = 0
    /\ last = NoCall
    /\ fnIn \in [retry_times : 0..MaxAcqRetry,
                 resps : [1..MaxAcqRetry -> AcqResponses]]
    /\ fnOut = Nothing

ApplyAcquire ==
    /\ fnOut = Nothing
    /\ fnOut' = Some(_acquire_access_token_obo("idt-alice", TenantId, ClientId,
                         None, Scope, fnIn.retry_times, fnIn.resps))
    /\ UNCHANGED <<st, env, now, last, fnIn>>

SpecAcq == InitAcq /\ [][ApplyAcquire]_vars

-----------------------------------------------------------------------------
(* Claims about _check_role *)

\* C4: _check_role(C, R) is true iff C has a roles list that shares an element
\* with the values of R; it is false when C is empty or has no roles entry.
ThmC4 ==
    fnOut # Nothing
        => LET C == fnIn.auth
               R == fnIn.user_roles
           IN /\ fnOut[1] = ("roles" \in DOMAIN C /\ Range(C.roles) \cap Range(R) # {})
              /\ (C = Empty \/ "roles" \notin DOMAIN C) => fnOut[1] = FALSE

\* one matching role among two claimed and two required suffices
WitC4 ==
    /\ fnOut = Some(TRUE)
    /\ fnIn.auth.roles = <<"App.User", "App.Admin">>
    /\ fnIn.user_roles = [Admin |-> "App.Admin", User |-> "Admin"]

-----------------------------------------------------------------------------
(* Claims about _acquire_access_token_obo *)

\* tenant id, client id and client secret resolve in the call of ApplyAcquire
AcqConfigured == env.CLIENT_SECRET # None

AllFail == \A i \in DOMAIN fnIn.resps : fnIn.resps[i].status_code # 200
FirstOk == fnIn.resps[1].status_code = 200

\* the place of the first 200 among the first n answers, 0 if there is none
FirstOkWithin(n) ==
    LET oks == {i \in DOMAIN fnIn.resps :
                    i <= n /\ fnIn.resps[i].status_code = 200}
    IN IF oks = {} THEN 0 ELSE CHOOSE i \in oks : \A j \in oks : i <= j

\* C5 (as claimed): for every retry_times the acquire issues exactly
\* retry_times - 1 POSTs when every response is non-200 (and then signals
\* failure), and exactly 1 POST when the first response is 200.
OrigC5 ==
    (fnOut # Nothing /\ AcqConfigured)
        => /\ AllFail => /\ Len(fnOut[1].posts) = fnIn.retry_times - 1
                         /\ fnOut[1].kind = "raise"
           /\ FirstOk => Len(fnOut[1].posts) = 1

\* C5 (amended): for retry_times >= 1 the acquire issues exactly
\* retry_times - 1 POSTs when every response is non-200, and none for
\* retry_times <= 0 (and then signals failure); when the first response is 200
\* it issues exactly 1 POST if retry_times >= 2, and none, signalling failure,
\* if retry_times <= 1.
ThmC5 ==
    (fnOut # Nothing /\ AcqConfigured)
        => /\ AllFail
                => /\ Len(fnOut[1].posts) =
                        (IF fnIn.retry_times >= 1 THEN fnIn.retry_times - 1 ELSE 0)
                   /\ fnOut[1].kind = "raise"
                   /\ fnOut[1].exc = "RequestException"
           /\ (FirstOk /\ fnIn.retry_times >= 2)
                => (Len(fnOut[1].posts) = 1 /\ fnOut[1].kind = "return")
           /\ (FirstOk /\ fnIn.retry_times <= 1)
                => (Len(fnOut[1].posts) = 0 /\ fnOut[1].kind = "raise")

\* retry_times = 5 against an endpoint that always fails: 4 POSTs
WitC5 ==
    /\ fnOut # Nothing /\ AcqConfigured
    /\ AllFail
    /\ fnIn.retry_times = 5
    /\ Len(fnOut[1].posts) = 4
    /\ fnOut[1].kind = "raise"

\* C6: when the first 200 is the k-th response and k <= retry_times - 1, the
\* acquire returns the body of that response after exactly k POSTs; when there
\* is no 200 among the first retry_times - 1 responses it signals failure and
\* returns no body.
ThmC6 ==
    (fnOut # Nothing /\ AcqConfigured)
        => LET k == FirstOkWithin(fnIn.retry_times - 1)
               r == fnOut[1]
           IN IF k > 0
              THEN /\ r.kind = "return"
                   /\ r.body = fnIn.resps[k].body
                   /\ Len(r.posts) = k
              ELSE /\ r.kind = "raise"
                   /\ r.exc = "RequestException"
                   /\ r.body = Empty

\* 500, 500, 500, 200 with retry_times = 5: the fourth attempt succeeds
WitC6 ==
    /\ fnOut # Nothing /\ AcqConfigured
    /\ fnIn.retry_times = 5
    /\ \A i \in 1..3 : fnIn.resps[i].status_code = 500
    /\ fnIn.resps[4].status_code = 200
    /\ fnIn.resps[5].status_code = 200
    /\ fnIn.resps[5].body # fnIn.resps[4].body
    /\ fnOut[1].kind = "return"
    /\ fnOut[1].body = fnIn.resps[4].body
    /\ Len(fnOut[1].posts) = 4

\* C17 (as claimed): when the acquire exhausts its retries, the attempt count
\* that its request-failure error carries is the number of POSTs the call
\* made (stated for the calls that POSTed at least once).
OrigC17 ==
    (/\ fnOut # Nothing
     /\ fnOut[1].exc = "RequestException"
     /\ fnOut[1].posts # << >>)
        => fnOut[1].times = Len(fnOut[1].posts)

====
